---- MODULE Spec2Model ----
(***************************************************************************)
(* tinylazyseq: lazily evaluated sequences (src/src/Sequence.ts and its    *)
(* asynchronous twin).  A Sequence is an immutable node that wraps its     *)
(* upstream in the field _values and caches a size; a traversal is a chain *)
(* of generator objects, one per node, pulled by a terminal operation.     *)
(* The only mutable state is the iterated flag of a ConstrainedSequence    *)
(* and the position of the iterator it owns; both live in the heap.        *)
(***************************************************************************)
EXTENDS Integers, Sequences, FiniteSets, TLC

\* ------------------------------------------------------------------ bounds
MaxLen == 2
MaxDepth == 2
MaxN == 1
MaxFuel == 6

\* JavaScript's null and undefined, as values outside the range of the data
JsNull == 0 - 100
JsUndefined == 0 - 101

VARIABLES seq, heap, trace, last, traversed, async

vars == <<seq, heap, trace, last, traversed, async>>

\* --------------------------------------------------------------- callbacks
\* Caller-supplied callbacks are named; a call returns [ok, v], ok = FALSE
\* when the callback throws.
Transform(f, v, i) ==
    CASE f = "inc"  -> [ok |-> TRUE, v |-> v + 1]
      [] f = "boom" -> [ok |-> v # 2, v |-> v]
      [] OTHER      -> [ok |-> TRUE, v |-> v]

Predicate(p, v, i) ==
    CASE p = "odd"  -> [ok |-> TRUE, v |-> v % 2 = 1]
      [] p = "lt2"  -> [ok |-> TRUE, v |-> v < 2]
      [] p = "is2"  -> [ok |-> TRUE, v |-> v = 2]
      [] p = "is3"  -> [ok |-> TRUE, v |-> v = 3]
      [] p = "at0"  -> [ok |-> TRUE, v |-> i < 1]
      [] OTHER      -> [ok |-> TRUE, v |-> TRUE]

Action(a, v, i) ==
    CASE a = "boom"  -> [ok |-> v # 2]
      [] a = "boom1" -> [ok |-> v # 1]
      [] OTHER       -> [ok |-> TRUE]

\* nextValue of Sequence.generate: "upto3" counts up to 3, then returns
\* null; "upto3u" is x => x < 3 ? x + 1 : undefined; "succ" never returns
\* null
NextValue(g, v) ==
    CASE g = "upto3" -> IF v >= 3 THEN JsNull ELSE v + 1
      [] g = "upto3u" -> IF v # JsUndefined /\ v < 3 THEN v + 1 ELSE JsUndefined
      [] g = "succ"  -> v + 1
      [] OTHER       -> v + 1

\* ------------------------------------------------------------------- world
\* The world a traversal runs in: the heap of constrained sequences, the
\* log of observable events and the fuel left for unbounded generators.
World(h, t) == [heap |-> h, trace |-> t, fuel |-> MaxFuel]

Log(w, ev, who, lvl, v) ==
    [w EXCEPT !.trace = Append(@, [ev |-> ev, who |-> who, lvl |-> lvl, v |-> v])]

\* ------------------------------------------------------------ constructors
\* new Sequence(iterable, size)
SequenceCtor(vals, size, nested) ==
    [kind |-> "base", vals |-> vals, size |-> size, lvl |-> 0, nested |-> nested]

Of(args) == SequenceCtor(args, Len(args), FALSE)

Empty == SequenceCtor(<<>>, 0, FALSE)

\* a source handed to Sequence.from: what it holds and what it exposes
\* (next: it has a next method; iterable: it has a Symbol.iterator method;
\* length and size: the property, JsUndefined if it has none)
Source(vals, next, iterable, length, size) ==
    [vals |-> vals, next |-> next, iterable |-> iterable, length |-> length, size |-> size]

\* an array, a Set, an iterable without length and size, an array iterator
\* (iterable over itself), and two sources with more than one capability
ArraySource(vals)    == Source(vals, FALSE, TRUE, Len(vals), JsUndefined)
SetSource(vals)      == Source(vals, FALSE, TRUE, JsUndefined, Len(vals))
IterableSource(vals) == Source(vals, FALSE, TRUE, JsUndefined, JsUndefined)
IteratorSource(vals) == Source(vals, TRUE, TRUE, JsUndefined, JsUndefined)
LengthAndSizeSource(vals) == Source(vals, FALSE, TRUE, Len(vals), Len(vals) + 1)
IteratorWithLengthSource(vals) == Source(vals, TRUE, FALSE, Len(vals), JsUndefined)

isIterable(source) == source.iterable
isIterator(source) == source.next
isLenghted(source) == source.length # JsUndefined
isSized(source)    == source.size # JsUndefined

DiscoverSize(source) ==
    IF isLenghted(source) THEN source.length
    ELSE IF isSized(source) THEN source.size
    ELSE 0 - 1

GeneratorSequence(initial, nextValue) ==
    [kind |-> "generate", initial |-> initial, f |-> nextValue, size |-> 0 - 1, lvl |-> 0]

ConcatSize(a, b) == IF a < 0 \/ b < 0 THEN 0 - 1 ELSE a + b

ConcatSequence(s, other) ==
    [kind |-> "concat", up |-> s, other |-> other,
     size |-> ConcatSize(s.size, other.size), lvl |-> s.lvl + 1]

DropSize(c, n) == IF c < 0 THEN 0 - 1 ELSE IF c - n < 0 THEN 0 ELSE c - n

DropSequence(s, n) ==
    [kind |-> "drop", up |-> s, n |-> n, size |-> DropSize(s.size, n), lvl |-> s.lvl + 1]

\* the size of take(n) without the cap at the size of the operand
TakeSizeUncapped(c, n) == IF c < 0 THEN 0 - 1 ELSE n

TakeSize(c, n) == IF c < 0 THEN 0 - 1 ELSE IF n > c THEN c ELSE n

TakeSequence(s, n) ==
    [kind |-> "take", up |-> s, n |-> n, size |-> TakeSize(s.size, n), lvl |-> s.lvl + 1]

MapSize(c) == c

MapSequence(s, f) ==
    [kind |-> "map", up |-> s, f |-> f, size |-> MapSize(s.size), lvl |-> s.lvl + 1]

UnknownSize == 0 - 1

FilteringSequence(s, p) ==
    [kind |-> "filter", up |-> s, f |-> p, size |-> UnknownSize, lvl |-> s.lvl + 1]

DropWhileSequence(s, p) ==
    [kind |-> "dropWhile", up |-> s, f |-> p, size |-> UnknownSize, lvl |-> s.lvl + 1]

TakeWhileSequence(s, p) ==
    [kind |-> "takeWhile", up |-> s, f |-> p, size |-> UnknownSize, lvl |-> s.lvl + 1]

FlatteningSequence(s) ==
    [kind |-> "flatten", up |-> s, size |-> UnknownSize, lvl |-> s.lvl + 1]

FlatmappingSequence(s, f) ==
    [kind |-> "flatMap", up |-> s, f |-> f, size |-> UnknownSize, lvl |-> s.lvl + 1]

\* the transforms that return a sequence: "twice" returns v, v, "evens"
\* the empty sequence for an odd v and v for an even one
FlatTransforms == {"twice", "evens"}

FlatTransform(f, v, i) ==
    CASE f = "twice" -> [ok |-> TRUE, v |-> Of(<<v, v>>)]
      [] f = "evens" -> [ok |-> TRUE, v |-> IF v % 2 = 1 THEN Empty ELSE Of(<<v>>)]
      [] OTHER       -> [ok |-> TRUE, v |-> Of(<<v>>)]

\* this.transform(value, index++) of a map, whatever the transform returns
Mapped(f, v, i) == IF f \in FlatTransforms THEN FlatTransform(f, v, i) ELSE Transform(f, v, i)

\* ---------------------------------------------------------------- iterators
\* An array iterator (it has no return method).
ArrIt(vals) == [k |-> "arr", vals |-> vals, i |-> 0]

\* The generator object node[Symbol.iterator]() returns; its body has not
\* started.  c is the node's counter (index, taken, dropped, current),
\* y the yielding flag, ph the phase of a concat, in/in2 the iterators the
\* body holds.
NoIt == [k |-> "none"]

GenIt(node) ==
    [k |-> "gen", node |-> node, st |-> "new", c |-> 0, y |-> FALSE,
     ph |-> 0, in |-> NoIt, in2 |-> NoIt]

\* new ConstrainedSequence(iterator, size): the node and its heap cell
ConstrainedSequence(iterator, size, lvl, w) ==
    [node |-> [kind |-> "constrained", id |-> Len(w.heap) + 1, size |-> size, lvl |-> lvl],
     w    |-> [w EXCEPT !.heap = Append(@, [iterated |-> FALSE, it |-> iterator])]]

\* the field _values of a node, and _values[Symbol.iterator]()
ValuesIterator(node) ==
    CASE node.kind = "base" -> ArrIt(node.vals)
      [] node.kind \in {"generate", "constrained"} -> ArrIt(<<>>)
      [] OTHER -> GenIt(node.up)

\* ------------------------------------------------ generator bodies: next()
\* The outcome of next() or return() on an iterator: the iterator and the
\* world afterwards, and t = "val" (v yielded), "done", "throw" (e raised),
\* "hang" (out of fuel) or, for return(), "ok".
R(it, w, t, v, e) == [it |-> it, w |-> w, t |-> t, v |-> v, e |-> e]

IllegalStateError == "IllegalStateError"
Fault == "Fault"

\* the error the callback f throws when it throws: every callback its own
Thrown(f) == IF f = "boom1" THEN "Fault of boom1" ELSE Fault

RECURSIVE Next(_, _), Close(_, _)

\* for (const value of this._values): the next value of the loop
Pulled(it, w) == Next(IF it.st = "new" THEN ValuesIterator(it.node) ELSE it.in, w)

\* the loop ends because its iterator ended or threw
Stop(it, r) == R([it EXCEPT !.st = "done", !.in = r.it], r.w, r.t, r.v, r.e)

Yield(it, w, v) == R([it EXCEPT !.st = "susp"], w, "val", v, "")

\* the loop body throws e: the loop closes its iterator, e propagates
Abort(it, in, w, e) ==
    LET Closed(cl) == R([it EXCEPT !.st = "done", !.in = cl.it], cl.w, "throw", 0, e)
    IN  Closed(Close(in, Log(w, "fault", it.node.kind, it.node.lvl, e)))

\* break: the loop closes its iterator and the generator returns
Break(it, in, w) ==
    LET Closed(cl) == R([it EXCEPT !.st = "done", !.in = cl.it], cl.w,
                        IF cl.t = "ok" THEN "done" ELSE cl.t, 0, cl.e)
    IN  Closed(Close(in, w))

Received(it, r) == Log(r.w, "pull", it.node.kind, it.node.lvl, r.v)

\* Sequence[Symbol.iterator]
BaseNext(it, w) ==
    LET Loop(r) ==
          IF r.t = "val" THEN Yield([it EXCEPT !.in = r.it], r.w, r.v) ELSE Stop(it, r)
    IN  Loop(Pulled(it, w))

\* GeneratorSequence[Symbol.iterator] that yields what nextValue returned
\* before it tests it for null
GeneratorNextYieldsMarker(it, w) ==
    IF it.st = "new" THEN Yield([it EXCEPT !.c = it.node.initial], w, it.node.initial)
    ELSE IF it.c = JsNull THEN R([it EXCEPT !.st = "done"], w, "done", 0, "")
    ELSE IF w.fuel = 0 THEN R([it EXCEPT !.st = "done"], w, "hang", 0, "")
    ELSE LET nv == NextValue(it.node.f, it.c)
             w1 == [Log(w, "call", "generate", it.node.lvl, it.c) EXCEPT !.fuel = @ - 1]
         IN  Yield([it EXCEPT !.c = nv], w1, nv)

\* GeneratorSequence[Symbol.iterator]
GeneratorNext(it, w) ==
    IF it.st = "new" THEN Yield([it EXCEPT !.c = it.node.initial], w, it.node.initial)
    ELSE IF it.c = JsNull THEN R([it EXCEPT !.st = "done"], w, "done", 0, "")
    ELSE IF w.fuel = 0 THEN R([it EXCEPT !.st = "done"], w, "hang", 0, "")
    ELSE LET nv == NextValue(it.node.f, it.c)
             w1 == [Log(w, "call", "generate", it.node.lvl, it.c) EXCEPT !.fuel = @ - 1]
         IN  IF nv # JsNull /\ nv # JsUndefined
             THEN Yield([it EXCEPT !.c = nv], w1, nv)
             ELSE Next([it EXCEPT !.c = nv], w1)

\* ConcatSequence[Symbol.iterator]: yield* this._values, then
\* yield* this.other["_values"]
ConcatNext(it, w) ==
    LET First(r) ==
          CASE r.t = "val"  -> Yield([it EXCEPT !.in = r.it], r.w, r.v)
            [] r.t = "done" -> Next([it EXCEPT !.st = "susp", !.ph = 1, !.in = r.it,
                                        !.in2 = ValuesIterator(it.node.other)], r.w)
            [] OTHER        -> Stop(it, r)
        Second(r) ==
          IF r.t = "val" THEN Yield([it EXCEPT !.in2 = r.it], r.w, r.v)
          ELSE R([it EXCEPT !.st = "done", !.in2 = r.it], r.w, r.t, r.v, r.e)
    IN  IF it.ph = 0 THEN First(Pulled(it, w)) ELSE Second(Next(it.in2, w))

\* this.iterator.next() of a ConstrainedSequence; the iterator lives in the heap
IteratorNext(id, w) ==
    LET Stored(r) == [r EXCEPT !.w = [r.w EXCEPT !.heap[id].it = r.it]]
    IN  Stored(Next(w.heap[id].it, w))

\* ConstrainedSequence[Symbol.iterator] without this.iterated = true
ConstrainedNextUnflagged(it, w) ==
    LET id == it.node.id
        Result(r) == IF r.t = "val" THEN Yield(it, r.w, r.v)
                     ELSE R([it EXCEPT !.st = "done"], r.w, r.t, r.v, r.e)
    IN  IF it.st = "new" /\ w.heap[id].iterated
        THEN R([it EXCEPT !.st = "done"], w, "throw", 0, IllegalStateError)
        ELSE Result(IteratorNext(id, w))

\* ConstrainedSequence[Symbol.iterator] that sets this.iterated when its
\* iterator has ended
ConstrainedNextFlagsAtEnd(it, w) ==
    LET id == it.node.id
        Result(r) == IF r.t = "val" THEN Yield(it, r.w, r.v)
                     ELSE R([it EXCEPT !.st = "done"],
                            [r.w EXCEPT !.heap[id].iterated = TRUE], r.t, r.v, r.e)
    IN  IF it.st = "new" /\ w.heap[id].iterated
        THEN R([it EXCEPT !.st = "done"], w, "throw", 0, IllegalStateError)
        ELSE Result(IteratorNext(id, w))

\* ConstrainedSequence[Symbol.iterator]: resumed after a yield, the finally
\* block pulls the next value
ConstrainedNext(it, w) ==
    LET id == it.node.id
        Result(r) == IF r.t = "val" THEN Yield(it, r.w, r.v)
                     ELSE R([it EXCEPT !.st = "done"], r.w, r.t, r.v, r.e)
    IN  IF it.st = "new" /\ w.heap[id].iterated
        THEN R([it EXCEPT !.st = "done"], w, "throw", 0, IllegalStateError)
        ELSE Result(IteratorNext(id, [w EXCEPT !.heap[id].iterated = TRUE]))

\* DropSequence[Symbol.iterator] with dropped++ > this.n
DropNextOneMore(it, w) ==
    LET Loop(r) ==
          IF r.t # "val" THEN Stop(it, r)
          ELSE LET it1 == [it EXCEPT !.in = r.it, !.c = @ + 1]
               IN  IF it.c > it.node.n THEN Yield(it1, Received(it, r), r.v)
                   ELSE Next([it1 EXCEPT !.st = "susp"], Received(it, r))
    IN  Loop(Pulled(it, w))

\* DropSequence[Symbol.iterator]
DropNext(it, w) ==
    LET Loop(r) ==
          IF r.t # "val" THEN Stop(it, r)
          ELSE LET it1 == [it EXCEPT !.in = r.it, !.c = @ + 1]
               IN  IF it.c >= it.node.n THEN Yield(it1, Received(it, r), r.v)
                   ELSE Next([it1 EXCEPT !.st = "susp"], Received(it, r))
    IN  Loop(Pulled(it, w))

\* TakeSequence[Symbol.iterator]
TakeNext(it, w) ==
    LET Loop(r) ==
          IF r.t # "val" THEN Stop(it, r)
          ELSE LET it1 == [it EXCEPT !.in = r.it, !.c = @ + 1]
               IN  IF it.c < it.node.n THEN Yield(it1, Received(it, r), r.v)
                   ELSE Break(it1, r.it, Received(it, r))
    IN  Loop(Pulled(it, w))

\* a filter that yields every value
FilterKeepsAll(keep) == TRUE

\* does a filter yield the value its predicate returned keep for?
FilterKeeps(keep) == keep

\* FilteringSequence[Symbol.iterator]
FilterNext(it, w) ==
    LET Loop(r) ==
          IF r.t # "val" THEN Stop(it, r)
          ELSE LET it1 == [it EXCEPT !.in = r.it, !.c = @ + 1]
                   w1  == Log(Received(it, r), "call", "filter", it.node.lvl, r.v)
                   p   == Predicate(it.node.f, r.v, it.c)
               IN  IF ~p.ok THEN Abort(it1, r.it, w1, Thrown(it.node.f))
                   ELSE IF FilterKeeps(p.v) THEN Yield(it1, w1, r.v)
                   ELSE Next([it1 EXCEPT !.st = "susp"], w1)
    IN  Loop(Pulled(it, w))

\* DropWhileSequence[Symbol.iterator] whose yielding flag follows the
\* predicate instead of staying set
DropWhileNextUnlatched(it, w) ==
    LET Loop(r) ==
          IF r.t # "val" THEN Stop(it, r)
          ELSE LET w1  == Log(Received(it, r), "call", "dropWhile", it.node.lvl, r.v)
                   p   == Predicate(it.node.f, r.v, it.c)
                   it1 == [it EXCEPT !.in = r.it, !.c = @ + 1, !.y = p.ok /\ ~p.v]
               IN  IF ~p.ok THEN Abort(it1, r.it, w1, Thrown(it.node.f))
                   ELSE IF it1.y THEN Yield(it1, w1, r.v)
                   ELSE Next([it1 EXCEPT !.st = "susp"], w1)
    IN  Loop(Pulled(it, w))

\* DropWhileSequence[Symbol.iterator]
DropWhileNext(it, w) ==
    LET Loop(r) ==
          IF r.t # "val" THEN Stop(it, r)
          ELSE LET w1  == Log(Received(it, r), "call", "dropWhile", it.node.lvl, r.v)
                   p   == Predicate(it.node.f, r.v, it.c)
                   it1 == [it EXCEPT !.in = r.it, !.c = @ + 1, !.y = @ \/ (p.ok /\ ~p.v)]
               IN  IF ~p.ok THEN Abort(it1, r.it, w1, Thrown(it.node.f))
                   ELSE IF it1.y THEN Yield(it1, w1, r.v)
                   ELSE Next([it1 EXCEPT !.st = "susp"], w1)
    IN  Loop(Pulled(it, w))

\* TakeWhileSequence[Symbol.iterator]
TakeWhileNext(it, w) ==
    LET Loop(r) ==
          IF r.t # "val" THEN Stop(it, r)
          ELSE LET w1  == Log(Received(it, r), "call", "takeWhile", it.node.lvl, r.v)
                   p   == Predicate(it.node.f, r.v, it.c)
                   it1 == [it EXCEPT !.in = r.it, !.c = @ + 1]
               IN  IF ~p.ok THEN Abort(it1, r.it, w1, Thrown(it.node.f))
                   ELSE IF ~p.v THEN Break(it1, r.it, w1)
                   ELSE Yield(it1, w1, r.v)
    IN  Loop(Pulled(it, w))

\* MapSequence[Symbol.iterator]
MapNext(it, w) ==
    LET Loop(r) ==
          IF r.t # "val" THEN Stop(it, r)
          ELSE LET w1  == Log(Received(it, r), "call", "map", it.node.lvl, r.v)
                   c   == Mapped(it.node.f, r.v, it.c)
                   it1 == [it EXCEPT !.in = r.it, !.c = @ + 1]
               IN  IF c.ok THEN Yield(it1, w1, c.v) ELSE Abort(it1, r.it, w1, Thrown(it.node.f))
    IN  Loop(Pulled(it, w))

\* yield* inner, inside the loop over this._values
Delegate(it, w) ==
    LET Failed(r, cl) ==
          R([it EXCEPT !.st = "done", !.in = cl.it, !.in2 = r.it], cl.w, r.t, 0, r.e)
        Inner(r) ==
          CASE r.t = "val"  -> Yield([it EXCEPT !.in2 = r.it], r.w, r.v)
            [] r.t = "done" -> Next([it EXCEPT !.st = "susp", !.in2 = NoIt], r.w)
            [] OTHER        -> Failed(r, Close(it.in, r.w))
    IN  Inner(Next(it.in2, w))

\* FlatteningSequence[Symbol.iterator]
FlattenNext(it, w) ==
    LET Loop(r) ==
          IF r.t # "val" THEN Stop(it, r)
          ELSE Next([it EXCEPT !.st = "susp", !.in = r.it, !.in2 = GenIt(r.v)],
                    Log(r.w, "pull", "flatten", it.node.lvl, 0))
    IN  IF it.in2.k # "none" THEN Delegate(it, w) ELSE Loop(Pulled(it, w))

\* FlatmappingSequence[Symbol.iterator] that leaves an inner sequence
\* after its first value
FlatMapNextOneEach(it, w) ==
    LET Loop(r) ==
          IF r.t # "val" THEN Stop(it, r)
          ELSE LET w1  == Log(Received(it, r), "call", "flatMap", it.node.lvl, r.v)
                   c   == FlatTransform(it.node.f, r.v, it.c)
                   it1 == [it EXCEPT !.in = r.it, !.c = @ + 1]
               IN  IF c.ok THEN Next([it1 EXCEPT !.st = "susp", !.in2 = GenIt(c.v)], w1)
                   ELSE Abort(it1, r.it, w1, Thrown(it.node.f))
        Inner(r) ==
          CASE r.t = "val"  -> Yield([it EXCEPT !.in2 = NoIt], r.w, r.v)
            [] r.t = "done" -> Next([it EXCEPT !.st = "susp", !.in2 = NoIt], r.w)
            [] OTHER        -> R([it EXCEPT !.st = "done"], r.w, r.t, 0, r.e)
    IN  IF it.in2.k # "none" THEN Inner(Next(it.in2, w)) ELSE Loop(Pulled(it, w))

\* FlatmappingSequence[Symbol.iterator]
FlatMapNext(it, w) ==
    LET Loop(r) ==
          IF r.t # "val" THEN Stop(it, r)
          ELSE LET w1  == Log(Received(it, r), "call", "flatMap", it.node.lvl, r.v)
                   c   == FlatTransform(it.node.f, r.v, it.c)
                   it1 == [it EXCEPT !.in = r.it, !.c = @ + 1]
               IN  IF c.ok THEN Next([it1 EXCEPT !.st = "susp", !.in2 = GenIt(c.v)], w1)
                   ELSE Abort(it1, r.it, w1, Thrown(it.node.f))
    IN  IF it.in2.k # "none" THEN Delegate(it, w) ELSE Loop(Pulled(it, w))

\* an array whose iterators share one position: the number of values the
\* array has handed out so far
ArrayNextShared(it, w) ==
    LET i == Len(SelectSeq(w.trace, LAMBDA e : e.ev = "src"))
    IN  IF i < Len(it.vals)
        THEN R([it EXCEPT !.i = i + 1], Log(w, "src", "array", 0, i + 1), "val",
               it.vals[i + 1], "")
        ELSE R(it, w, "done", 0, "")

\* next() of an array iterator
ArrayNext(it, w) ==
    IF it.i < Len(it.vals)
    THEN R([it EXCEPT !.i = @ + 1], Log(w, "src", "array", 0, it.i + 1), "val", it.vals[it.i + 1], "")
    ELSE R(it, w, "done", 0, "")

\* iterator.next()
Next(it, w) ==
    IF it.k = "arr" THEN ArrayNext(it, w)
    ELSE IF it.st = "done" THEN R(it, w, "done", 0, "")
    ELSE CASE it.node.kind = "base"        -> BaseNext(it, w)
           [] it.node.kind = "generate"    -> GeneratorNext(it, w)
           [] it.node.kind = "concat"      -> ConcatNext(it, w)
           [] it.node.kind = "constrained" -> ConstrainedNext(it, w)
           [] it.node.kind = "drop"        -> DropNext(it, w)
           [] it.node.kind = "take"        -> TakeNext(it, w)
           [] it.node.kind = "filter"      -> FilterNext(it, w)
           [] it.node.kind = "dropWhile"   -> DropWhileNext(it, w)
           [] it.node.kind = "takeWhile"   -> TakeWhileNext(it, w)
           [] it.node.kind = "map"         -> MapNext(it, w)
           [] it.node.kind = "flatten"     -> FlattenNext(it, w)
           [] it.node.kind = "flatMap"     -> FlatMapNext(it, w)

\* ConstrainedSequence, return() at the yield: the finally block runs
ConstrainedClose(it, w) ==
    LET Finally(r) == R([it EXCEPT !.st = "done"], r.w,
                        IF r.t \in {"throw", "hang"} THEN r.t ELSE "ok", 0, r.e)
    IN  Finally(IteratorNext(it.node.id, w))

\* iterator.return(): a generator suspended at a yield inside a loop closes
\* the loop's iterator; an array iterator has no return method
Close(it, w) ==
    LET Second(cl) == R([it EXCEPT !.st = "done", !.in2 = cl.it], cl.w, cl.t, 0, cl.e)
        Outer(c2, c1) ==
          R([it EXCEPT !.st = "done", !.in = c1.it, !.in2 = c2.it], c1.w,
            IF c2.t # "ok" THEN c2.t ELSE c1.t, 0, IF c2.t # "ok" THEN c2.e ELSE c1.e)
        Inner(c2) == Outer(c2, Close(it.in, c2.w))
        Loop(cl) == R([it EXCEPT !.st = "done", !.in = cl.it], cl.w, cl.t, 0, cl.e)
    IN
    IF it.k # "gen" THEN R(it, w, "ok", 0, "")
    ELSE IF it.st # "susp" THEN R([it EXCEPT !.st = "done"], w, "ok", 0, "")
    ELSE CASE it.node.kind = "constrained" -> ConstrainedClose(it, w)
           [] it.node.kind = "generate" -> R([it EXCEPT !.st = "done"], w, "ok", 0, "")
           [] it.node.kind = "concat" /\ it.ph = 1 -> Second(Close(it.in2, w))
           [] it.node.kind \in {"flatten", "flatMap"} -> Inner(Close(it.in2, w))
           [] OTHER -> Loop(Close(it.in, w))

\* Sequence.from that asks first whether the source is iterable
FromIterableFirst(source, w) ==
    IF isIterable(source)
    THEN [node |-> SequenceCtor(source.vals, DiscoverSize(source), FALSE), w |-> w]
    ELSE ConstrainedSequence(ArrIt(source.vals), 0 - 1, 0, w)

\* Sequence.from(source)
From(source, w) ==
    IF isIterator(source)
    THEN ConstrainedSequence(ArrIt(source.vals), 0 - 1, 0, w)
    ELSE [node |-> SequenceCtor(source.vals, DiscoverSize(source), FALSE), w |-> w]

\* constrainOnce() that fetches the first value when it is called
ConstrainOnceEager(s, w) ==
    LET Fetched(b, r) == [node |-> b.node, w |-> r.w]
        Made(b) == Fetched(b, IteratorNext(b.node.id, b.w))
    IN  Made(ConstrainedSequence(GenIt(s), s.size, s.lvl + 1, w))

\* Sequence.constrainOnce()
ConstrainOnce(s, w) == ConstrainedSequence(GenIt(s), s.size, s.lvl + 1, w)

\* ------------------------------------------------------ terminal operations
\* The outcome of a terminal operation: out = "ok" (val returned), the error
\* raised, or "hang"; w is the world afterwards.
T(out, val, w) == [out |-> out, val |-> val, w |-> w]

Op(name, arg) == [name |-> name, arg |-> arg]

\* the locals of a terminal operation's loop: index, count, result, array
Acc(i, n, v, s) == [i |-> i, n |-> n, v |-> v, s |-> s]

\* what one round of the loop does: continue, return val or throw
B(k, acc, val, w) == [k |-> k, acc |-> acc, val |-> val, w |-> w]

Called(op, acc, item, w) == Log(w, "call", op.name, acc.i, item)

\* the callback of the terminal operation was called and threw
Raised(op, acc, item, w) ==
    Log(Called(op, acc, item, w), "fault", op.name, acc.i, Thrown(op.arg))

\* the operation of fold and reduce: "shift" depends on the order of its
\* calls, "digits" on the order and on the index; both keep six digits
Operation(f, a, v, i) ==
    CASE f = "shift"  -> (a * 10 + v) % 1000000
      [] f = "digits" -> (a * 100 + v * 10 + i) % 1000000
      [] OTHER        -> a + v

\* fold's call of operation with an index that stays 0
FoldStepNoIndex(op, acc, item) == Operation(op.arg.f, acc.v, item, 0)

\* result = operation(result, item, index++) in fold
FoldStep(op, acc, item) == Operation(op.arg.f, acc.v, item, acc.i)

\* result = operation(result, item, index++) in reduce
ReduceStep(op, acc, item) == Operation(op.arg, acc.v, item, acc.i)

\* A string is the sequence of its pieces; the empty string is <<>>.
Str(piece, v) == <<[s |-> piece, v |-> v]>>

\* the defaults of join's options
Separator == Str(", ", 0)
Truncated == Str("...", 0)

\* transform(item) or item.toString() in join
JoinItem(o, item) ==
    IF o.transform # "none" THEN Str(o.transform, item) ELSE Str("toString", item)

\* the end of join that appends truncated when count has reached limit
JoinEndAtLimit(o, acc) ==
    acc.s \o (IF o.limit >= 0 /\ acc.n >= o.limit THEN Truncated ELSE <<>>) \o o.postfix

\* the end of join: truncated if the loop went past limit, then postfix
JoinEnd(o, acc) ==
    acc.s \o (IF o.limit >= 0 /\ acc.n > o.limit THEN Truncated ELSE <<>>) \o o.postfix

\* one round of join's loop: acc.n is count, acc.s is base
JoinBody(op, acc, item, w) ==
    LET o     == op.arg
        count == acc.n + 1
        base  == IF count > 1 THEN acc.s \o Separator ELSE acc.s
        shown == [acc EXCEPT !.i = @ + 1, !.n = count, !.s = base \o JoinItem(o, item)]
        cut   == [acc EXCEPT !.i = @ + 1, !.n = count, !.s = base]
    IN  IF o.limit < 0 \/ count <= o.limit
        THEN B("cont", shown, 0,
               IF o.transform # "none" THEN Called(op, acc, item, w) ELSE w)
        ELSE B("ret", cut, JoinEnd(o, cut), w)

\* the body of for (const item of this) in each terminal operation
Body(op, acc, item, w) ==
    LET next == [acc EXCEPT !.i = @ + 1]
    IN  CASE op.name = "contains" ->
               IF item = op.arg THEN B("ret", acc, TRUE, w) ELSE B("cont", acc, FALSE, w)
          [] op.name = "count" ->
               IF op.arg = "none" THEN B("cont", [next EXCEPT !.n = @ + 1], 0, w)
               ELSE LET p == Predicate(op.arg, item, acc.i)
                    IN  IF ~p.ok THEN B("throw", next, Thrown(op.arg), Raised(op, acc, item, w))
                        ELSE B("cont", [next EXCEPT !.n = IF p.v THEN @ + 1 ELSE @], 0,
                               Called(op, acc, item, w))
          [] op.name = "find" ->
               LET p == Predicate(op.arg, item, acc.i)
               IN  IF ~p.ok THEN B("throw", next, Thrown(op.arg), Raised(op, acc, item, w))
                   ELSE IF p.v THEN B("ret", next, item, Called(op, acc, item, w))
                   ELSE B("cont", next, 0, Called(op, acc, item, w))
          [] op.name = "findIndex" ->
               LET p == Predicate(op.arg, item, 0)
               IN  IF ~p.ok THEN B("throw", next, Thrown(op.arg), Raised(op, acc, item, w))
                   ELSE IF p.v THEN B("ret", next, acc.i, Called(op, acc, item, w))
                   ELSE B("cont", next, 0, Called(op, acc, item, w))
          [] op.name = "first"   -> B("ret", acc, item, w)
          [] op.name = "join"    -> JoinBody(op, acc, item, w)
          [] op.name = "elementAt" ->
               IF op.arg = acc.i THEN B("ret", next, item, w) ELSE B("cont", next, 0, w)
          [] op.name = "isEmpty" -> B("ret", acc, FALSE, w)
          [] op.name = "fold" ->
               B("cont", [next EXCEPT !.v = FoldStep(op, acc, item)], 0,
                 Called(op, acc, item, w))
          [] op.name = "reduce" ->
               B("cont", [next EXCEPT !.v = ReduceStep(op, acc, item)], 0,
                 Called(op, acc, item, w))
          [] op.name = "toArray" ->
               B("cont", [next EXCEPT !.s = Append(@, item)], 0, w)
          [] op.name = "forEach" ->
               IF Action(op.arg, item, acc.i).ok
               THEN B("cont", next, 0, Called(op, acc, item, w))
               ELSE B("throw", next, Thrown(op.arg), Raised(op, acc, item, w))

\* what the operation returns when the loop runs to the end
Final(op, acc) ==
    CASE op.name = "contains" -> FALSE
      [] op.name = "count"    -> acc.n
      [] op.name = "isEmpty"  -> TRUE
      [] op.name = "findIndex" -> 0 - 1
      [] op.name \in {"fold", "reduce"} -> acc.v
      [] op.name = "toArray"  -> acc.s
      [] op.name = "join"     -> JoinEnd(op.arg, acc)
      [] OTHER -> JsUndefined

\* for (const item of this) { body }: return and throw close the iterator
RECURSIVE ForOf(_, _, _, _)
ForOf(op, it, acc, w) ==
    LET Exit(b, cl) ==
          IF b.k = "throw" THEN T(b.val, 0, cl.w)
          ELSE IF cl.t = "ok" THEN T("ok", b.val, cl.w)
          ELSE IF cl.t = "hang" THEN T("hang", 0, cl.w)
          ELSE T(cl.e, 0, cl.w)
        Round(r, b) ==
          IF b.k = "cont" THEN ForOf(op, r.it, b.acc, b.w)
          ELSE Exit(b, Close(r.it, b.w))
        Loop(r) ==
          CASE r.t = "done"  -> T("ok", Final(op, acc), r.w)
            [] r.t = "throw" -> T(r.e, 0, r.w)
            [] r.t = "hang"  -> T("hang", 0, r.w)
            [] r.t = "val"   ->
                 Round(r, Body(op, acc, r.v, Log(r.w, "item", op.name, acc.i, r.v)))
    IN  Loop(Next(it, w))

Acc0(init) == Acc(0, 0, init, <<>>)

\* a terminal operation with a single loop over this; every traversal has
\* the fuel of its own
Traverse(op, node, init, w) ==
    ForOf(op, GenIt(node), Acc0(init), [w EXCEPT !.fuel = MaxFuel])

\* Sequence.containsAll: one contains, so one traversal, per value
RECURSIVE ContainsAllFrom(_, _, _, _)
ContainsAllFrom(node, values, k, w) ==
    LET Contained(c) ==
          IF c.out # "ok" THEN c
          ELSE IF ~c.val THEN T("ok", FALSE, c.w)
          ELSE ContainsAllFrom(node, values, k + 1, c.w)
    IN  IF k > Len(values) THEN T("ok", TRUE, w)
        ELSE Contained(Traverse(Op("contains", values[k]), node, 0, w))

\* Sequence.reduce: isEmpty(), first() and a loop over this.drop(1)
Reduce(op, node, w) ==
    LET WithFirst(f) ==
          IF f.out # "ok" THEN f
          ELSE Traverse(op, DropSequence(node, 1), f.val, f.w)
        NonEmpty(e) ==
          IF e.out # "ok" THEN e
          ELSE IF e.val THEN T("ok", JsNull, e.w)
          ELSE WithFirst(Traverse(Op("first", 0), node, 0, e.w))
    IN  NonEmpty(Traverse(Op("isEmpty", 0), node, 0, w))

\* `Sequence (${sizeString})`
SizeString(node) ==
    IF node.size < 0 THEN Str("Sequence (unknown)", 0) ELSE Str("Sequence (N)", node.size)

\* toString that tests the cached size, as AsyncSequence.toString does
toStringBySize(node, w) ==
    IF node.size = 0 THEN T("ok", Str("Sequence (empty)", 0), w)
    ELSE T("ok", SizeString(node), w)

\* Sequence.toString: isEmpty(), then the cached size
toString(node, w) ==
    LET Described(e) ==
          IF e.out # "ok" THEN e
          ELSE IF e.val THEN T("ok", Str("Sequence (empty)", 0), e.w)
          ELSE T("ok", SizeString(node), e.w)
    IN  Described(Traverse(Op("isEmpty", 0), node, 0, w))

Run(op, node, w) ==
    CASE op.name = "containsAll" -> ContainsAllFrom(node, op.arg, 1, w)
      [] op.name = "reduce"      -> Reduce(op, node, w)
      [] op.name = "toString"    -> toString(node, w)
      [] op.name = "elementAt"   ->
           IF op.arg < 0 THEN T("ok", JsUndefined, w) ELSE Traverse(op, node, 0, w)
      [] op.name = "fold"        -> Traverse(op, node, op.arg.initial, w)
      [] op.name = "join"        ->
           ForOf(op, GenIt(node), Acc(0, 0, 0, op.arg.prefix), [w EXCEPT !.fuel = MaxFuel])
      [] OTHER                   -> Traverse(op, node, 0, w)

\* ------------------------------------------------------- asynchronous twin
\* A promise in flight: who made it ("source", "map", "filter" or the
\* terminal operation), at which level, for which source value.
Promise(who, lvl, i) == [who |-> who, lvl |-> lvl, i |-> i]

NoPromise == Promise("none", 0, 0)

\* no asynchronous traversal has been started
AsyncIdle == [st |-> "idle"]

\* ------------------------------------------------------------ state machine
\* seq is the sequence the caller holds, heap the constrained sequences
\* created so far, trace the events of the last terminal operation, last
\* what the caller did last, traversed whether a terminal operation has run.
NoSeq == [kind |-> "none", size |-> 0, lvl |-> 0]

Init ==
    /\ seq = NoSeq
    /\ heap = <<>>
    /\ trace = <<>>
    /\ last = [kind |-> "init"]
    /\ traversed = FALSE
    /\ async = AsyncIdle

\* the inputs of the callers: the arrays 1..k, the callbacks, the counts
Prefix(k) == [i \in 1..k |-> i]
Arrays == {Prefix(k) : k \in 0..MaxLen}
Sources == {ArraySource(a) : a \in Arrays} \cup {IterableSource(a) : a \in Arrays}
             \cup {IteratorSource(a) : a \in Arrays}
             \cup {SetSource(Prefix(2)), LengthAndSizeSource(Prefix(1)),
                   IteratorWithLengthSource(Prefix(1))}
Transforms == {"inc", "boom"}
FilterPredicates == {"odd", "lt2"}
WhilePredicates == {"lt2", "at0"}
NextValues == {"upto3", "upto3u", "succ"}
Ns == {0 - 1} \cup (0..MaxN)
OtherKinds == {"of", "map", "filter", "take", "drop", "generate", "iterator", "constrained"}

\* the argument of concat, built by the caller
OtherSequence(o, w) ==
    CASE o = "of"          -> [node |-> Of(Prefix(2)), w |-> w]
      [] o = "map"         -> [node |-> MapSequence(Of(Prefix(2)), "inc"), w |-> w]
      [] o = "filter"      -> [node |-> FilteringSequence(Of(Prefix(2)), "odd"), w |-> w]
      [] o = "take"        -> [node |-> TakeSequence(Of(Prefix(2)), 1), w |-> w]
      [] o = "drop"        -> [node |-> DropSequence(Of(Prefix(2)), 1), w |-> w]
      [] o = "generate"    -> [node |-> GeneratorSequence(1, "upto3"), w |-> w]
      [] o = "iterator"    -> From(IteratorSource(Prefix(2)), w)
      [] o = "constrained" -> ConstrainOnce(Of(Prefix(2)), w)

IsNested(s) == s.kind = "base" /\ s.nested

\* a factory or an intermediate operation returned the node b.node
Built(b) ==
    /\ seq' = b.node
    /\ heap' = b.w.heap
    /\ trace' = b.w.trace
    /\ last' = [kind |-> "build"]
    /\ UNCHANGED <<traversed, async>>

Pure(node) == [node |-> node, w |-> World(heap, trace)]

\* a result is pending until the caller has taken it
Pending == last.kind \in {"terminal", "size"}

CanCreate == seq.kind = "none"

CanChain == seq.kind # "none" /\ ~traversed /\ ~Pending /\ seq.lvl < MaxDepth

OfFactory == \E a \in Arrays : CanCreate /\ Built(Pure(Of(a)))

EmptyFactory == CanCreate /\ Built(Pure(Empty))

OfSequencesFactory ==
    /\ CanCreate
    /\ Built(Pure(SequenceCtor(<<Of(Prefix(2)), Empty, Of(<<3>>)>>, 3, TRUE)))

\* Sequence.from(s) returned the node b.node
BuiltFrom(s, b) ==
    /\ seq' = b.node
    /\ heap' = b.w.heap
    /\ trace' = b.w.trace
    /\ last' = [kind |-> "from", source |-> s]
    /\ UNCHANGED <<traversed, async>>

FromFactory == \E s \in Sources : CanCreate /\ BuiltFrom(s, From(s, World(heap, trace)))

GenerateFactory == \E g \in NextValues : CanCreate /\ Built(Pure(GeneratorSequence(1, g)))

ConcatOp ==
    \E o \in OtherKinds :
        LET Concat(b) == Built([node |-> ConcatSequence(seq, b.node), w |-> b.w])
        IN  CanChain /\ ~IsNested(seq) /\ Concat(OtherSequence(o, World(heap, trace)))

ConstrainOnceOp == CanChain /\ ~IsNested(seq) /\ Built(ConstrainOnce(seq, World(heap, trace)))

DropOp == \E n \in Ns : CanChain /\ ~IsNested(seq) /\ Built(Pure(DropSequence(seq, n)))

DropWhileOp ==
    \E p \in WhilePredicates :
        CanChain /\ ~IsNested(seq) /\ Built(Pure(DropWhileSequence(seq, p)))

FilterOp ==
    \E p \in FilterPredicates :
        CanChain /\ ~IsNested(seq) /\ Built(Pure(FilteringSequence(seq, p)))

FlattenOp == CanChain /\ IsNested(seq) /\ Built(Pure(FlatteningSequence(seq)))

FlatMapOp ==
    \E f \in FlatTransforms :
        CanChain /\ ~IsNested(seq) /\ Built(Pure(FlatmappingSequence(seq, f)))

MapOp == \E f \in Transforms : CanChain /\ ~IsNested(seq) /\ Built(Pure(MapSequence(seq, f)))

TakeOp == \E n \in Ns : CanChain /\ ~IsNested(seq) /\ Built(Pure(TakeSequence(seq, n)))

TakeWhileOp ==
    \E p \in WhilePredicates :
        CanChain /\ ~IsNested(seq) /\ Built(Pure(TakeWhileSequence(seq, p)))

\* is the sequence the caller holds a consumed single-traversal sequence?
Consumed(s, h) == s.kind = "constrained" /\ h[s.id].iterated

\* the single-traversal sequence a pipeline was derived from: the first
\* one down the chain of _values, 0 if there is none
RECURSIVE GuardOf(_)
GuardOf(s) ==
    IF s.kind = "constrained" THEN s.id
    ELSE IF s.kind \in {"none", "base", "generate"} THEN 0
    ELSE GuardOf(s.up)

\* is the pipeline derived from a consumed single-traversal sequence?
Guarded(s, h) == GuardOf(s) # 0 /\ h[GuardOf(s)].iterated

\* does the terminal operation recorded in l start a traversal at all?
Attempts(l) ==
    /\ l.op = "containsAll" => Len(l.arg) > 0
    /\ l.op = "elementAt" => l.arg >= 0

\* has a terminal operation that starts a traversal run already?
Tried ==
    CASE last.kind = "terminal" -> last.tried \/ Attempts(last)
      [] last.kind \in {"idle", "fork", "size"} -> last.tried
      [] OTHER -> FALSE

CanTraverse == seq.kind # "none" /\ ~IsNested(seq) /\ ~Pending

\* the caller invokes the terminal operation op on seq
Terminal(op) ==
    LET Returned(r) ==
          /\ heap' = r.w.heap
          /\ trace' = r.w.trace
          /\ last' = [kind |-> "terminal", op |-> op.name, arg |-> op.arg, out |-> r.out,
                      val |-> r.val, fresh |-> ~traversed, pre |-> Consumed(seq, heap),
                      guarded |-> Guarded(seq, heap), forked |-> last.kind = "fork",
                      tried |-> Tried]
          /\ traversed' = TRUE
          /\ UNCHANGED <<seq, async>>
    IN  CanTraverse /\ Returned(Run(op, seq, World(heap, <<>>)))

ContainsAll == \E vs \in {<<>>, <<1>>, <<1, 2>>, <<4, 1>>} : Terminal(Op("containsAll", vs))

Count == \E p \in {"none", "odd"} : Terminal(Op("count", p))

ElementAt == \E i \in {0 - 1, 0, 1} : Terminal(Op("elementAt", i))

Find == \E p \in {"is2", "is3"} : Terminal(Op("find", p))

FindIndex == Terminal(Op("findIndex", "is2"))

First == Terminal(Op("first", 0))

Fold == \E initial \in {0, 5} : Terminal(Op("fold", [f |-> "digits", initial |-> initial]))

ForEach == \E a \in {"noop", "boom", "boom1"} : Terminal(Op("forEach", a))

IsEmpty == Terminal(Op("isEmpty", 0))

\* join with a limit and a transform or without, prefix "List [", postfix "]"
JoinOptions ==
    {[limit |-> l, transform |-> t, prefix |-> Str("List [", 0), postfix |-> Str("]", 0)] :
        l \in {0 - 1, 0, 1}, t \in {"none", "Number "}}

Join == \E o \in JoinOptions : Terminal(Op("join", o))

ReduceOp == Terminal(Op("reduce", "shift"))

ToArray == Terminal(Op("toArray", 0))

ToStringOp == Terminal(Op("toString", 0))

\* the caller has the result of the terminal operation and goes on
Return ==
    /\ Pending
    /\ last' = [kind |-> "idle", tried |-> Tried]
    /\ trace' = <<>>
    /\ UNCHANGED <<seq, heap, traversed, async>>

\* what the caller derives from the single-traversal sequence s it kept
Forks == {"self", "map", "filter", "take", "drop"}

Derived(d, s) ==
    CASE d = "map"    -> MapSequence(s, "inc")
      [] d = "filter" -> FilteringSequence(s, "odd")
      [] d = "take"   -> TakeSequence(s, 1)
      [] d = "drop"   -> DropSequence(s, 1)
      [] OTHER        -> s

\* the caller kept the single-traversal sequence it derived its pipeline
\* from; after a terminal operation on the pipeline it goes on with that
\* sequence itself or with another pipeline derived from it
Fork ==
    \E d \in Forks :
        /\ seq.kind \notin {"none", "base", "generate", "constrained"}
        /\ seq.up.kind = "constrained"
        /\ traversed /\ last.kind = "idle"
        /\ seq' = Derived(d, seq.up)
        /\ last' = [kind |-> "fork", tried |-> Tried]
        /\ UNCHANGED <<heap, trace, traversed, async>>

\* size() that reports what is left: nothing once the sequence is consumed
SizeRemaining ==
    /\ seq.kind # "none"
    /\ ~Pending
    /\ last' = [kind |-> "size", val |-> IF Consumed(seq, heap) THEN 0 ELSE seq.size,
                tried |-> Tried]
    /\ UNCHANGED <<seq, heap, trace, traversed, async>>

\* Sequence.size(): reads the cached size, never traverses
Size ==
    /\ seq.kind # "none"
    /\ ~Pending
    /\ last' = [kind |-> "size", val |-> seq.size, tried |-> Tried]
    /\ UNCHANGED <<seq, heap, trace, traversed, async>>

Next_ ==
    \/ OfFactory \/ EmptyFactory \/ OfSequencesFactory \/ FromFactory \/ GenerateFactory
    \/ ConcatOp \/ ConstrainOnceOp \/ DropOp \/ DropWhileOp \/ FilterOp \/ FlattenOp
    \/ FlatMapOp \/ MapOp \/ TakeOp \/ TakeWhileOp
    \/ ContainsAll \/ Count \/ ElementAt \/ Find \/ FindIndex \/ First \/ Fold \/ ForEach \/ IsEmpty \/ Join \/ ReduceOp
    \/ ToArray \/ ToStringOp \/ Return \/ Fork \/ Size

Spec == Init /\ [][Next_]_vars

TypeOK == last.kind \in {"init", "build", "from", "terminal", "idle", "fork", "size"}

\* --------------------------------------- asynchronous traversal, by steps
\* One traversal of an AsyncSequence pipeline: a source of n values (an
\* iterable, or an iterator wrapped by AsyncConstrainedSequence), a chain
\* of map and filter nodes and a terminal operation.  Every callback
\* returns a pending promise; a promise resolves when the scheduler says
\* so.  pc is where the traversal stands, at the level the current value
\* has reached (0 the source, Len(chain) + 1 the terminal operation).
SyncVars == <<seq, heap, trace, last, traversed>>

AsyncSources == {"iterable", "iterator"}
AsyncNodes == {"map", "filter"}
AsyncChains == UNION {[1..k -> AsyncNodes] : k \in 0..MaxDepth}
AsyncTerminals == {"forEach", "find", "findIndex"}

Running == async.st = "run"

\* the traversal makes the promise p and goes on without waiting for it
Started(a, p) == [a EXCEPT !.inflight = @ \cup {p}]

\* await p
Awaiting(a, p) == [Started(a, p) EXCEPT !.awaiting = p, !.pc = "wait"]

\* does the terminal operation await the result of its callback?
\* (AsyncSequence.findIndex tests predicate(item) without await)
Awaits(term) == term # "findIndex"

\* what the terminal operation returns when its loop runs to the end
AsyncFinal(term) == IF term = "findIndex" THEN 0 - 1 ELSE JsUndefined

\* the caller starts a terminal operation on a fresh pipeline
AsyncBegin ==
    \E n \in 0..MaxLen, src \in AsyncSources, chain \in AsyncChains, term \in AsyncTerminals :
        /\ async.st = "idle"
        /\ async' = [st |-> "run", n |-> n, src |-> src, chain |-> chain, term |-> term,
                     pc |-> "pull", at |-> 0, cur |-> 0, val |-> 0, inflight |-> {},
                     awaiting |-> NoPromise, closing |-> FALSE, log |-> <<>>,
                     out |-> JsUndefined]
        /\ UNCHANGED SyncVars

\* for await (const value of this._values) at the bottom: next() of the
\* source is called and awaited
AsyncPull ==
    /\ Running /\ async.pc = "pull"
    /\ async' = Awaiting(async, Promise("source", 0, async.cur + 1))
    /\ UNCHANGED SyncVars

\* the scheduler resolves a promise in flight
AsyncResolve ==
    \E p \in (IF Running THEN async.inflight ELSE {}) :
        /\ async' = [async EXCEPT !.inflight = @ \ {p}]
        /\ UNCHANGED SyncVars

\* the awaited promise has resolved: the traversal goes on after the await
AsyncResume ==
    /\ Running /\ async.pc = "wait" /\ async.awaiting \notin async.inflight
    /\ LET p == async.awaiting
           a == [async EXCEPT !.awaiting = NoPromise]
       IN  async' =
             CASE p.who = "source" ->
                    IF async.closing THEN [a EXCEPT !.st = "done", !.pc = "done"]
                    ELSE IF p.i > async.n
                    THEN [a EXCEPT !.st = "done", !.pc = "done", !.out = AsyncFinal(async.term)]
                    ELSE [a EXCEPT !.cur = p.i, !.val = p.i, !.at = 1, !.pc = "enter"]
               [] p.who = "map" ->
                    [a EXCEPT !.val = @ + 1, !.at = p.lvl + 1, !.pc = "enter"]
               [] p.who = "filter" ->
                    IF async.val % 2 = 1 THEN [a EXCEPT !.at = p.lvl + 1, !.pc = "enter"]
                    ELSE [a EXCEPT !.pc = "pull"]
               [] p.who = "forEach" -> [a EXCEPT !.pc = "pull"]
               [] p.who = "find" ->
                    IF async.val = 2 THEN [a EXCEPT !.out = async.val, !.pc = "close"]
                    ELSE [a EXCEPT !.pc = "pull"]
    /\ UNCHANGED SyncVars

\* the value enters the node or the terminal operation at level at: the
\* callback is called; map awaits it at its yield, filter and the
\* terminal operations with await; findIndex does not await the promise
\* its predicate returned, finds it truthy and returns index
AsyncEnter ==
    /\ Running /\ async.pc = "enter"
    /\ async' =
         IF async.at <= Len(async.chain)
         THEN Awaiting(async, Promise(async.chain[async.at], async.at, async.cur))
         ELSE LET a == [async EXCEPT !.log = Append(@, async.val)]
                  p == Promise(async.term, async.at, async.cur)
              IN  IF Awaits(async.term) THEN Awaiting(a, p)
                  ELSE [Started(a, p) EXCEPT !.out = Len(async.log), !.pc = "close"]
    /\ UNCHANGED SyncVars

\* return inside for await: return() reaches the generator at the bottom;
\* the finally block of AsyncConstrainedSequence awaits this.iterator.next()
AsyncClose ==
    /\ Running /\ async.pc = "close"
    /\ async' =
         IF async.src = "iterator"
         THEN [Awaiting(async, Promise("source", 0, async.cur + 1)) EXCEPT !.closing = TRUE]
         ELSE [async EXCEPT !.st = "done", !.pc = "done"]
    /\ UNCHANGED SyncVars

\* what JavaScript's ! makes of a promise (an object) and of a boolean
Not(x) == IF x.promise THEN FALSE ELSE ~x.value

\* AsyncSequence.contains(value): a promise of the answer
AsyncContains(vals, value) ==
    [promise |-> TRUE, value |-> \E k \in 1..Len(vals) : vals[k] = value]

\* AsyncSequence.containsAll(values): if (!this.contains(value)) return false
RECURSIVE AsyncContainsAllFrom(_, _, _)
AsyncContainsAllFrom(vals, values, k) ==
    IF k > Len(values) THEN TRUE
    ELSE IF Not(AsyncContains(vals, values[k])) THEN FALSE
    ELSE AsyncContainsAllFrom(vals, values, k + 1)

\* the caller awaits AsyncSequence.of(...vals).containsAll(values)
AsyncContainsAll ==
    \E vals \in Arrays, values \in {<<>>, <<1>>, <<2>>, <<1, 2>>, <<4, 1>>} :
        /\ async.st = "idle"
        /\ async' = [st |-> "contained", vals |-> vals, values |-> values,
                     out |-> AsyncContainsAllFrom(vals, values, 1)]
        /\ UNCHANGED SyncVars

\* ------------------------ two terminal operations on one AsyncSequence
\* Two terminal operations on the sequence AsyncSequence.from(iterator) of
\* n values.  A call runs without interruption up to its first await; the
\* operations interleave at their awaits.  iterated is the flag of the
\* AsyncConstrainedSequence, writes how often it was assigned, pos the
\* position of the iterator.  Of an operation: pc where it stands,
\* settled what became of the promise it returned, got how many values it
\* was handed, trav whether its traversal got past the test of the flag.
RaceOps == {"forEach", "first", "containsAll", "toString"}

\* toString() is the one operation here that is no traversal
Traverses(name) == name # "toString"

RaceOp(name) ==
    [name |-> name, pc |-> "call", settled |-> "pending", got |-> 0, trav |-> FALSE]

Racing == async.st = "race"

\* does the operation await its traversal, so that it is rejected when
\* the traversal is?  (containsAll does not await contains)
AwaitsTraversal(name) == name # "containsAll"

\* for await (const item of this) calls next() on a new generator of
\* AsyncConstrainedSequence, which runs to its first await: it throws if
\* iterated is set, else sets it and awaits this.iterator.next()
Entered(a, k) ==
    IF a.iterated
    THEN [a EXCEPT !.ops[k].pc = "over",
                   !.ops[k].settled = IF AwaitsTraversal(a.ops[k].name) THEN "rejected" ELSE @]
    ELSE [a EXCEPT !.iterated = TRUE, !.writes = @ + 1,
                   !.ops[k].trav = TRUE, !.ops[k].pc = "pull"]

\* the traversal of operation k is over
Over(a, k) ==
    [a EXCEPT !.ops[k].pc = "over",
              !.ops[k].settled = IF AwaitsTraversal(a.ops[k].name) THEN "resolved" ELSE @]

\* AsyncSequence.toString() that tests for emptiness by a traversal, as
\* Sequence.toString() does
DescribedByTraversal(a, k) ==
    IF a.iterated
    THEN [a EXCEPT !.ops[k].pc = "over", !.ops[k].settled = "rejected"]
    ELSE [a EXCEPT !.iterated = TRUE, !.writes = @ + 1,
                   !.ops[k].pc = "over", !.ops[k].settled = "resolved"]

\* AsyncSequence.toString(): reads _size and returns a string at once
Described(a, k) == [a EXCEPT !.ops[k].pc = "over", !.ops[k].settled = "resolved"]

\* the caller makes a sequence from an iterator and holds it
RaceBegin ==
    \E n \in 0..MaxLen, first \in RaceOps, second \in RaceOps :
        /\ async.st = "idle"
        /\ async' = [st |-> "race", n |-> n, iterated |-> FALSE, writes |-> 0, pos |-> 0,
                     ops |-> <<RaceOp(first), RaceOp(second)>>]
        /\ UNCHANGED SyncVars

\* the caller calls operation k: containsAll([1]) awaits the first of
\* its values, toString() returns, the others start their traversal
RaceCall ==
    \E k \in 1..2 :
        /\ Racing /\ async.ops[k].pc = "call"
        /\ async' = CASE async.ops[k].name = "containsAll" ->
                           [async EXCEPT !.ops[k].pc = "tick"]
                      [] async.ops[k].name = "toString" -> Described(async, k)
                      [] OTHER -> Entered(async, k)
        /\ UNCHANGED SyncVars

\* containsAll has its first value: it calls this.contains(value), which
\* starts a traversal, and goes on to await its next value
RaceTick ==
    \E k \in 1..2 :
        /\ Racing /\ async.ops[k].pc = "tick"
        /\ async' = Entered(async, k)
        /\ UNCHANGED SyncVars

\* containsAll has no value left: it returns true
RaceReturn ==
    \E k \in 1..2 :
        /\ Racing /\ async.ops[k].name = "containsAll"
        /\ async.ops[k].pc \notin {"call", "tick"} /\ async.ops[k].settled = "pending"
        /\ async' = [async EXCEPT !.ops[k].settled = "resolved"]
        /\ UNCHANGED SyncVars

\* the awaited this.iterator.next() has resolved: the value is yielded to
\* the loop of the operation, or the traversal ends
RacePull ==
    \E k \in 1..2 :
        /\ Racing /\ async.ops[k].pc = "pull"
        /\ async' =
             IF async.pos >= async.n THEN Over(async, k)
             ELSE LET a == [async EXCEPT !.pos = @ + 1, !.ops[k].got = @ + 1]
                  IN  CASE a.ops[k].name = "forEach" -> [a EXCEPT !.ops[k].pc = "body"]
                        [] a.ops[k].name = "first"   -> [a EXCEPT !.ops[k].pc = "closing"]
                        [] OTHER -> [a EXCEPT !.ops[k].pc =
                                        IF a.pos = 1 THEN "closing" ELSE "pull"]
        /\ UNCHANGED SyncVars

\* the awaited action of forEach has resolved: the generator is resumed,
\* its finally block awaits this.iterator.next()
RaceBody ==
    \E k \in 1..2 :
        /\ Racing /\ async.ops[k].pc = "body"
        /\ async' = [async EXCEPT !.ops[k].pc = "pull"]
        /\ UNCHANGED SyncVars

\* return inside the loop: the finally block has awaited
\* this.iterator.next() and the operation returns
RaceClose ==
    \E k \in 1..2 :
        /\ Racing /\ async.ops[k].pc = "closing"
        /\ async' = Over([async EXCEPT !.pos = IF @ < async.n THEN @ + 1 ELSE @], k)
        /\ UNCHANGED SyncVars

NextAsync ==
    \/ AsyncBegin \/ AsyncPull \/ AsyncResolve \/ AsyncResume \/ AsyncEnter \/ AsyncClose
    \/ AsyncContainsAll
    \/ RaceBegin \/ RaceCall \/ RaceTick \/ RaceReturn \/ RacePull \/ RaceBody \/ RaceClose

SpecAsync == Init /\ [][NextAsync]_vars

\* ------------------------------------------------------------------ claims
\* the events of the trace that satisfy Keep
Events(tr, Keep(_)) == SelectSeq(tr, Keep)

IsItem(e) == e.ev = "item"
IsCall(e) == e.ev = "call"
IsSource(e) == e.ev = "src"

OnSingleTraversal == last.kind = "terminal" /\ seq.kind = "constrained" /\ Attempts(last)

\* C1, on states: after a terminal operation on a single-traversal sequence
\* the sequence is consumed, and an operation that found it consumed raised
\* IllegalStateError with no value pulled, yielded or passed to a callback.
SecondTraversalRaises ==
    OnSingleTraversal =>
        /\ heap[seq.id].iterated
        /\ last.pre => last.out = IllegalStateError /\ trace = <<>>

\* C1, on steps: no step turns a consumed sequence fresh again.
StaysConsumed == \A i \in DOMAIN heap : heap[i].iterated => heap'[i].iterated

\* C1: once a first traversal of a single-traversal sequence has started,
\* every later traversal attempt raises IllegalStateError before any value
\* is yielded, however the first traversal ended, and the consumed flag
\* never returns to fresh.
C1_SingleTraversal == []SecondTraversalRaises /\ [][StaysConsumed]_vars

\* a terminal operation was rejected after an earlier one had abandoned its
\* traversal: the generator the constrained sequence owns is still suspended
C1_Witness ==
    /\ OnSingleTraversal
    /\ last.pre
    /\ last.out = IllegalStateError
    /\ heap[seq.id].it.k = "gen"
    /\ heap[seq.id].it.st = "susp"

\* C2: the first terminal operation on a fresh single-traversal sequence
\* completes with its result and does not raise IllegalStateError.
C2_FirstTerminalSucceeds ==
    (last.kind = "terminal" /\ seq.kind = "constrained" /\ last.fresh)
        => last.out # IllegalStateError

Untouched(it) ==
    /\ it.k = "arr" => it.i = 0
    /\ it.k = "gen" => it.st = "new"

\* C3: while no terminal operation has begun a traversal, no callback has
\* been invoked and no value has been pulled: the trace is empty and every
\* iterator a constrained sequence owns is where it started.
C3_BuildingIsLazy ==
    ~traversed =>
        /\ trace = <<>>
        /\ \A i \in DOMAIN heap : ~heap[i].iterated /\ Untouched(heap[i].it)

\* a chain map, constrainOnce has been built and nothing has run
C3_Witness ==
    /\ ~traversed
    /\ seq.kind = "constrained"
    /\ seq.lvl = 2
    /\ heap[seq.id].it.k = "gen"
    /\ heap[seq.id].it.node.kind = "map"
    /\ trace = <<>>

\* how many events of the trace are calls of the callback of who at level lvl
CallsOf(who, lvl) ==
    Len(Events(trace, LAMBDA e : e.ev = "call" /\ e.who = who /\ e.lvl = lvl))

\* how often the callback of the terminal operation who was called
TerminalCalls(who) == Len(Events(trace, LAMBDA e : e.ev = "call" /\ e.who = who))

\* a chain of map and constrainOnce over an array: every node passes one
\* value on for each value it is handed
RECURSIVE OneToOne(_, _)
OneToOne(node, h) ==
    CASE node.kind = "base" -> TRUE
      [] node.kind = "map" -> OneToOne(node.up, h)
      [] node.kind = "constrained" ->
           IF h[node.id].it.k = "arr" THEN TRUE ELSE OneToOne(h[node.id].it.node, h)
      [] OTHER -> FALSE

\* C4: find with its first match at position k has invoked its predicate
\* and every map transform upstream exactly k + 1 times, also when the chain
\* contains constrainOnce.
C4_FindInvokesUpToMatch ==
    (/\ last.kind = "terminal" /\ last.op = "find" /\ last.out = "ok"
     /\ last.val # JsUndefined /\ last.fresh /\ OneToOne(seq, heap))
        => \A l \in 1..seq.lvl :
               CallsOf("map", l) = 0 \/ CallsOf("map", l) = TerminalCalls("find")

\* the calls of the trace, as <<callback, argument>>
Calls ==
    LET c == Events(trace, IsCall) IN [i \in 1..Len(c) |-> <<c[i].who, c[i].v>>]

IsPrefix(a, b) == Len(a) <= Len(b) /\ a = SubSeq(b, 1, Len(a))

\* value by value: p, and for a value p holds for, f and then the action
RECURSIVE ValueByValue(_, _, _, _)
ValueByValue(vals, k, p, f) ==
    IF k > Len(vals) THEN <<>>
    ELSE LET v == vals[k]
         IN  (IF Predicate(p, v, k - 1).v
              THEN << <<"filter", v>>, <<"map", v>>, <<"forEach", Transform(f, v, 0).v>> >>
              ELSE << <<"filter", v>> >>) \o ValueByValue(vals, k + 1, p, f)

FilterMapForEach ==
    /\ last.kind = "terminal" /\ last.op = "forEach"
    /\ seq.kind = "map" /\ seq.up.kind = "filter" /\ seq.up.up.kind = "base"

\* C5: a traversal of filter(p).map(f) ended by forEach(action) calls p, f
\* and the action value by value in pipeline order, f and the action only
\* for the values p holds for; a fault cuts the order short.
C5_ValueByValue ==
    FilterMapForEach =>
        LET expected == ValueByValue(seq.up.up.vals, 1, seq.up.f, seq.f)
        IN  /\ IsPrefix(Calls, expected)
            /\ last.out = "ok" => Calls = expected

\* forEach ran to the end over a source with a kept and a rejected value
C5_Witness ==
    /\ FilterMapForEach
    /\ last.out = "ok"
    /\ Len(seq.up.up.vals) = 2
    /\ Len(Calls) = 4

\* the values take at the head of the pipeline pulled from its upstream
TakePulls ==
    Len(Events(trace, LAMBDA e : e.ev = "pull" /\ e.who = "take" /\ e.lvl = seq.lvl))

\* C6: a traversal of take(n), n >= 0, pulls at most n values from the
\* upstream node.
C6_TakePullsAtMostN ==
    (/\ last.kind = "terminal" /\ last.op \notin {"reduce", "containsAll"}
     /\ seq.kind = "take" /\ seq.n >= 0)
        => TakePulls <= seq.n

\* the heap before anything was traversed
Rewind(it) == IF it.k = "arr" THEN ArrIt(it.vals) ELSE GenIt(it.node)

FreshHeap(h) == [i \in DOMAIN h |-> [iterated |-> FALSE, it |-> Rewind(h[i].it)]]

\* the outcome of toArray on node, had it been the first traversal
Yielded(node) == Run(Op("toArray", 0), node, World(FreshHeap(heap), <<>>))

\* C7: a.concat(b) yields the values a yields followed by the values b
\* yields, whatever kind of node b is.
C7_ConcatYieldsBoth ==
    (/\ last.kind = "terminal" /\ last.op = "toArray" /\ last.out = "ok"
     /\ last.fresh /\ seq.kind = "concat")
        => LET a == Yielded(seq.up)
               b == Yielded(seq.other)
           IN  (a.out = "ok" /\ b.out = "ok") => last.val = a.val \o b.val

\* built from of, empty or from(array) by map, take, drop and concat
RECURSIVE Sized(_)
Sized(node) ==
    CASE node.kind = "base" -> ~node.nested /\ node.size = Len(node.vals)
      [] node.kind \in {"map", "take", "drop"} -> Sized(node.up)
      [] node.kind = "concat" -> Sized(node.up) /\ Sized(node.other)
      [] OTHER -> FALSE

\* C8: for a sequence built from arrays by map, take, drop and concat, a
\* non-negative size() is the number of values a full traversal yields.
C8_SizeIsCount ==
    (/\ last.kind = "terminal" /\ last.op = "count" /\ last.arg = "none"
     /\ last.out = "ok" /\ Sized(seq) /\ seq.size >= 0)
        => last.val = seq.size

Min(a, b) == IF a < b THEN a ELSE b
Max(a, b) == IF a > b THEN a ELSE b

\* the size a node reports, from the sizes its operands report
SizeComposes(s) ==
    CASE s.kind = "take" ->
           IF s.up.size >= 0 THEN s.size = Min(s.n, s.up.size) ELSE s.size < 0
      [] s.kind = "drop" ->
           IF s.up.size >= 0 THEN s.size = Max(0, s.up.size - s.n) ELSE s.size < 0
      [] s.kind = "map" -> s.size = s.up.size
      [] s.kind = "concat" ->
           IF s.up.size >= 0 /\ s.other.size >= 0
           THEN s.size = s.up.size + s.other.size ELSE s.size < 0
      [] s.kind \in {"filter", "flatMap", "flatten", "dropWhile", "takeWhile", "generate"} ->
           s.size < 0
      [] s.kind = "constrained" -> heap[s.id].it.k = "arr" => s.size < 0
      [] OTHER -> TRUE

\* C9: take(n), drop(n), map(f) and concat report min(n, c), max(0, c - n),
\* c and the sum of the operands' sizes for operands of known size and a
\* negative size for an operand of negative size; filter, flatMap, flatten,
\* dropWhile, takeWhile, generate and from(iterator) report a negative size.
C9_SizeComposes ==
    /\ seq.kind # "none" => SizeComposes(seq)
    /\ seq.kind = "concat" => SizeComposes(seq.other)

\* take(n) over a drop of known size smaller than n: the cap applies
C9_Witness ==
    /\ seq.kind = "take"
    /\ seq.up.kind = "drop"
    /\ seq.up.size >= 0
    /\ seq.n > seq.up.size
    /\ seq.size = seq.up.size

TakeOrDropRan ==
    /\ last.kind = "terminal" /\ last.op = "toArray" /\ last.out = "ok" /\ last.fresh
    /\ seq.kind \in {"take", "drop"} /\ seq.n >= 0
    /\ Yielded(seq.up).out = "ok"

Prefix_(vals, n) == SubSeq(vals, 1, Min(n, Len(vals)))
Suffix_(vals, n) == SubSeq(vals, n + 1, Len(vals))

\* take(n) yields the first min(n, c) values of its source, drop(n) the
\* values from position n on, and the two together the values of the source
TakeDropValues ==
    TakeOrDropRan =>
        LET src == Yielded(seq.up).val
        IN  /\ seq.kind = "take" =>
                /\ last.val = Prefix_(src, seq.n)
                /\ last.val \o Yielded(DropSequence(seq.up, seq.n)).val = src
            /\ seq.kind = "drop" =>
                /\ last.val = Suffix_(src, seq.n)
                /\ Yielded(TakeSequence(seq.up, seq.n)).val \o last.val = src

\* C10 as claimed: the values of take(n) and drop(n), and size 0 for take(0)
\* and for drop(n) with n at least the number c of values of the source.
C10_TakeDropAsClaimed ==
    /\ TakeDropValues
    /\ TakeOrDropRan =>
        /\ (seq.kind = "take" /\ seq.n = 0) => last.val = <<>> /\ seq.size = 0
        /\ (seq.kind = "drop" /\ seq.n >= Len(Yielded(seq.up).val))
               => last.val = <<>> /\ seq.size = 0

\* C10, amended: the values of take(n) and drop(n); take(0) and drop(n) with
\* n >= c yield nothing; take(0) reports size 0 and drop(n) reports size 0
\* when n is at least the size the source reports, and both report a
\* negative size over a source of negative size.
C10_TakeDrop ==
    /\ TakeDropValues
    /\ TakeOrDropRan =>
        /\ (seq.kind = "take" /\ seq.n = 0) =>
               /\ last.val = <<>>
               /\ IF seq.up.size >= 0 THEN seq.size = 0 ELSE seq.size < 0
        /\ (seq.kind = "drop" /\ seq.n >= Len(Yielded(seq.up).val)) =>
               /\ last.val = <<>>
               /\ (seq.up.size >= 0 /\ seq.n >= seq.up.size) => seq.size = 0
               /\ seq.up.size < 0 => seq.size < 0

\* drop(1) over a source of unknown size left one value out and kept one
C10_Witness ==
    /\ TakeOrDropRan
    /\ seq.kind = "drop"
    /\ seq.n = 1
    /\ seq.up.size < 0
    /\ Len(last.val) = 1

\* the position (from 1) of the first value p does not hold for, p being
\* handed the position from 0 as index; Len(vals) + 1 if p holds for all
FirstFailing(vals, p) ==
    LET failing == {k \in 1..Len(vals) : ~Predicate(p, vals[k], k - 1).v}
    IN  IF failing = {} THEN Len(vals) + 1
        ELSE CHOOSE k \in failing : \A j \in failing : k <= j

WhileRan ==
    /\ last.kind = "terminal" /\ last.op = "toArray" /\ last.out = "ok" /\ last.fresh
    /\ seq.kind \in {"dropWhile", "takeWhile"}
    /\ Yielded(seq.up).out = "ok"

\* C11: dropWhile(p) yields the first value p does not hold for and every
\* value after it, also values p holds for again; takeWhile(p) yields the
\* values before that value and nothing from it on; p is handed the
\* position of the value in the upstream as index.
C11_WhileCutsAtFirstFailing ==
    WhileRan =>
        LET src == Yielded(seq.up).val
            k   == FirstFailing(src, seq.f)
        IN  /\ seq.kind = "dropWhile" => last.val = SubSeq(src, k, Len(src))
            /\ seq.kind = "takeWhile" => last.val = SubSeq(src, 1, k - 1)

\* dropWhile(v < 2) over 1, 2, 1, 2 yielded 2, 1, 2: the 1 after the cut
\* is a value the predicate holds for again
C11_Witness ==
    /\ WhileRan
    /\ seq.kind = "dropWhile"
    /\ seq.f = "lt2"
    /\ last.val = <<2, 1, 2>>

\* takeWhile(index < 1) over the values 2, 3 of a map yielded the value at
\* position 0 only
C11_WitnessIndex ==
    /\ WhileRan
    /\ seq.kind = "takeWhile"
    /\ seq.f = "at0"
    /\ seq.up.kind = "map"
    /\ last.val = <<2>>

\* the values of the items the terminal operation received, and the
\* arguments nextValue was called with
Items == LET e == Events(trace, IsItem) IN [i \in 1..Len(e) |-> e[i].v]

StepArgs ==
    LET e == Events(trace, LAMBDA x : x.ev = "call" /\ x.who = "generate")
    IN  [i \in 1..Len(e) |-> e[i].v]

\* seed, step(seed), step(step(seed)), ... up to the first null, at most
\* k values
RECURSIVE Iterated(_, _, _)
Iterated(g, v, k) ==
    IF v = JsNull \/ k = 0 THEN <<>> ELSE <<v>> \o Iterated(g, NextValue(g, v), k - 1)

GenerateRan ==
    /\ last.kind = "terminal" /\ last.fresh /\ seq.kind = "generate"
    /\ last.op \notin {"reduce", "containsAll"}

\* C12: a traversal of generate(seed, step) yields seed, step(seed), ...
\* in order; step is applied to each yielded value once, in order; a
\* traversal that runs to the end yields the values before the first null
\* step returns, not the null, and has called step once per yielded value,
\* so not again after the null.
C12_GenerateStopsAtNull ==
    (GenerateRan /\ seq.f # "upto3u") =>
        LET expected == Iterated(seq.f, seq.initial, MaxFuel + 2)
        IN  /\ IsPrefix(Items, expected)
            /\ IsPrefix(StepArgs, Items)
            /\ (last.op = "toArray" /\ last.out = "ok") =>
                   /\ last.val = expected
                   /\ StepArgs = expected

\* toArray over generate(1, x => x >= 3 ? null : x + 1) returned 1, 2, 3
C12_Witness ==
    /\ GenerateRan
    /\ last.op = "toArray"
    /\ last.out = "ok"
    /\ last.val = <<1, 2, 3>>
    /\ StepArgs = <<1, 2, 3>>

\* how many values the traversal read from the array at the bottom
SourcePulls == Len(Events(trace, IsSource))

\* C13: over a pipeline in which every node passes on one value for each
\* value it is handed, first() and isEmpty() read at most one value from
\* the source and elementAt(i) at most i + 1, also when the source is a
\* cursor wrapped by Sequence.from(iterator) or constrainOnce().
C13_ShortCircuitPulls ==
    (last.kind = "terminal" /\ OneToOne(seq, heap)) =>
        /\ last.op \in {"first", "isEmpty"} => SourcePulls <= 1
        /\ last.op = "elementAt" => SourcePulls <= Max(0, last.arg + 1)

\* op(...op(op(a, vals[k], i), vals[k + 1], i + 1)..., vals[Len(vals)], ...)
RECURSIVE FoldLeft(_, _, _, _, _)
FoldLeft(f, a, vals, k, i) ==
    IF k > Len(vals) THEN a
    ELSE FoldLeft(f, Operation(f, a, vals[k], i), vals, k + 1, i + 1)

\* reduce ran first on a sequence whose full traversal yields values
ReduceRan ==
    /\ last.kind = "terminal" /\ last.op = "reduce" /\ last.fresh
    /\ Yielded(seq).out = "ok"

\* C14: reduce(op) returns null for an empty sequence without calling op;
\* for a sequence that yields v0..vk it returns the left fold of v1..vk
\* from v0 and has called op exactly k times.
C14_ReduceFoldsFromFirst ==
    ReduceRan =>
        LET vals == Yielded(seq).val
        IN  /\ last.out = "ok"
            /\ IF vals = <<>>
               THEN last.val = JsNull /\ TerminalCalls("reduce") = 0
               ELSE /\ last.val = FoldLeft(last.arg, vals[1], vals, 2, 0)
                    /\ TerminalCalls("reduce") = Len(vals) - 1

FoldRan ==
    /\ last.kind = "terminal" /\ last.op = "fold" /\ last.fresh
    /\ Yielded(seq).out = "ok"

\* C15: fold(initial, op) returns initial for an empty sequence and
\* otherwise op(...op(op(initial, v0, 0), v1, 1)..., vk, k), op being
\* called once per value, in order, with the position of the value.
C15_FoldIsLeftFold ==
    FoldRan =>
        LET vals == Yielded(seq).val
        IN  /\ last.out = "ok"
            /\ last.val = FoldLeft(last.arg.f, last.arg.initial, vals, 1, 0)
            /\ vals = <<>> => last.val = last.arg.initial
            /\ TerminalCalls("fold") = Len(vals)

\* fold(5, op) over 1, 2: op(op(5, 1, 0), 2, 1)
C15_Witness ==
    /\ FoldRan
    /\ last.arg.initial = 5
    /\ Yielded(seq).val = <<1, 2>>
    /\ last.val = 51021

\* the string forms of vals from position k on, separated by the separator
RECURSIVE Separated(_, _, _)
Separated(o, vals, k) ==
    IF k > Len(vals) THEN <<>>
    ELSE (IF k > 1 THEN Separator ELSE <<>>) \o JoinItem(o, vals[k]) \o Separated(o, vals, k + 1)

\* what join is claimed to return for a sequence that yields vals
Joined(o, vals) ==
    IF o.limit >= 0 /\ Len(vals) > o.limit
    THEN o.prefix \o Separated(o, SubSeq(vals, 1, o.limit), 1)
           \o (IF o.limit > 0 THEN Separator ELSE <<>>) \o Truncated \o o.postfix
    ELSE o.prefix \o Separated(o, vals, 1) \o o.postfix

JoinRan ==
    /\ last.kind = "terminal" /\ last.op = "join" /\ last.fresh
    /\ Yielded(seq).out = "ok"

\* C16: join returns prefix, the string forms or transform results of the
\* values separated by separator, and postfix; with a limit L >= 0 and
\* more than L values it shows L values and the truncation marker before
\* postfix; with at most L values there is no marker; on an empty sequence
\* the result is prefix + postfix.
C16_JoinAsClaimed ==
    JoinRan =>
        LET vals == Yielded(seq).val
        IN  /\ last.out = "ok"
            /\ last.val = Joined(last.arg, vals)
            /\ vals = <<>> => last.val = last.arg.prefix \o last.arg.postfix

\* join with limit 1 over exactly one value: the value and no marker
C16_Witness ==
    /\ JoinRan
    /\ last.arg.limit = 1
    /\ Len(Yielded(seq).val) = 1
    /\ Len(last.val) = 3

\* join with limit 1 over two values: one value, separator and marker
C16_WitnessTruncated ==
    /\ JoinRan
    /\ last.arg.limit = 1
    /\ Len(Yielded(seq).val) = 2
    /\ last.val = last.arg.prefix \o JoinItem(last.arg, 1) \o Separator \o Truncated
                     \o last.arg.postfix

\* does a first traversal of the sequence end without a value?
YieldsNone ==
    LET Ended(f) == f.out = "ok" /\ Events(f.w.trace, IsItem) = <<>>
    IN  Ended(Run(Op("first", 0), seq, World(FreshHeap(heap), <<>>)))

\* does a first traversal of the sequence reach a first value or its end?
\* (a filter over an unbounded generator may do neither)
FirstDecided ==
    Run(Op("first", 0), seq, World(FreshHeap(heap), <<>>)).out # "hang"

ToStringRan ==
    /\ last.kind = "terminal" /\ last.op = "toString" /\ last.fresh
    /\ FirstDecided

C17_WitnessUnbounded ==
    /\ ToStringRan
    /\ seq.kind = "generate"
    /\ seq.f = "succ"
    /\ last.val = Str("Sequence (unknown)", 0)

\* C18: Sequence.from(source) returns a single-traversal sequence of
\* negative size for every source that has a next method, also one that
\* is iterable or has a length; for any other source a re-iterable
\* sequence whose size is source.length if that is a number, else
\* source.size if that is a number, else negative.
C18_FromTestsIteratorFirst ==
    last.kind = "from" =>
        LET source == last.source
        IN  IF source.next
            THEN /\ seq.kind = "constrained"
                 /\ seq.size < 0
                 /\ ~heap[seq.id].iterated
            ELSE /\ seq.kind = "base"
                 /\ seq.vals = source.vals
                 /\ IF source.length # JsUndefined THEN seq.size = source.length
                    ELSE IF source.size # JsUndefined THEN seq.size = source.size
                    ELSE seq.size < 0

\* from(an array iterator): a source that is iterable and has next
C18_Witness ==
    /\ last.kind = "from"
    /\ last.source.next
    /\ last.source.iterable
    /\ seq.kind = "constrained"

\* from(a source with length 1 and size 2): the length wins
C18_WitnessLength ==
    /\ last.kind = "from"
    /\ last.source.length = 1
    /\ last.source.size = 2
    /\ seq.size = 1

\* the promises in flight that belong to a value of the source
ValuesInFlight == {p.i : p \in {q \in async.inflight : q.i <= async.n}}

RECURSIVE Increasing(_, _)
Increasing(s, k) == k >= Len(s) \/ (s[k] < s[k + 1] /\ Increasing(s, k + 1))

\* C19: in a traversal of an asynchronous pipeline the values reach the
\* terminal operation in source order, and at no time are promises of two
\* different source values (pulls or callback results) in flight.
C19_OneValueInFlight ==
    async.st \in {"run", "done"} =>
        /\ Cardinality(ValuesInFlight) <= 1
        /\ Increasing(async.log, 1)

\* C20: AsyncSequence.containsAll(values) resolves to what the synchronous
\* containsAll returns for the same sequence and values.
C20_AsyncContainsAllAgrees ==
    async.st = "contained" =>
        async.out = Run(Op("containsAll", async.values), Of(async.vals),
                        World(<<>>, <<>>)).val

\* the synchronous pipeline of the same nodes over the same n values
RECURSIVE Piped(_, _, _)
Piped(chain, k, n) ==
    IF k = 0 THEN Of(Prefix(n))
    ELSE IF chain[k] = "map" THEN MapSequence(Piped(chain, k - 1, n), "inc")
    ELSE FilteringSequence(Piped(chain, k - 1, n), "odd")

\* C21: AsyncSequence.findIndex(p), p returning a promise of v = 2, resolves
\* to what the synchronous findIndex(v = 2) returns over the same pipeline:
\* the position of the first value p holds for, -1 if there is none.
C21_AsyncFindIndexAgrees ==
    (async.st = "done" /\ async.term = "findIndex") =>
        async.out = Run(Op("findIndex", "is2"),
                        Piped(async.chain, Len(async.chain), async.n),
                        World(<<>>, <<>>)).val

IsFault(e) == e.ev = "fault"

\* the faults the callbacks raised during the terminal operation, in order
Faults == Events(trace, IsFault)

\* the single-traversal sequences whose iterator has been pulled
Involved == {i \in DOMAIN heap : ~Untouched(heap[i].it)}

\* C22: every fault a transform, predicate or action throws during a
\* terminal operation is the fault the operation raises: none is caught,
\* replaced or lost on its way through the nodes; every single-traversal
\* sequence the traversal went through is consumed afterwards.
C22_FaultReachesCaller ==
    (last.kind = "terminal" /\ Faults # <<>>) =>
        /\ \A k \in 1..Len(Faults) : last.out = Faults[k].v
        /\ \A i \in Involved : heap[i].iterated
        /\ seq.kind = "constrained" => heap[seq.id].iterated

\* a terminal operation with one traversal ran first on flatMap(f), over
\* an upstream whose full traversal yields values
FlatMapRan ==
    /\ last.kind = "terminal" /\ last.fresh /\ seq.kind = "flatMap"
    /\ last.op \notin {"reduce", "containsAll"} /\ Attempts(last)
    /\ Yielded(seq.up).out = "ok"

\* the calls of f and the values handed to the terminal operation, in the
\* order they happened
FlatMapEvents ==
    LET e == Events(trace, LAMBDA x : \/ x.ev = "item"
                                      \/ x.ev = "call" /\ x.who = "flatMap" /\ x.lvl = seq.lvl)
    IN  [i \in 1..Len(e) |-> <<e[i].ev, e[i].v>>]

\* f(v) for the source value v, then every value of the inner sequence
\* f(v), source value by source value
RECURSIVE InnerByInner(_, _, _)
InnerByInner(f, vals, k) ==
    IF k > Len(vals) THEN <<>>
    ELSE LET inner == FlatTransform(f, vals[k], k - 1).v.vals
         IN  << <<"call", vals[k]>> >> \o [i \in 1..Len(inner) |-> <<"item", inner[i]>>]
               \o InnerByInner(f, vals, k + 1)

\* what the same terminal operation does on map(f).flatten()
MapThenFlatten ==
    Run(Op(last.op, last.arg), FlatteningSequence(MapSequence(seq.up, seq.f)),
        World(FreshHeap(heap), <<>>))

\* the values handed to the terminal operation in the world w
ItemsOf(w) == LET e == Events(w.trace, IsItem) IN [i \in 1..Len(e) |-> e[i].v]

\* C23: a terminal operation on flatMap(f) is handed the values, and
\* returns the result, that it gets on map(f).flatten(); f is called for
\* a source value only after every value of the inner sequence before,
\* and never for a source value the traversal does not reach: the calls
\* and values are a prefix of the full order that is complete or ends
\* with a value handed over.
C23_FlatMapIsMapFlatten ==
    FlatMapRan =>
        LET full == InnerByInner(seq.f, Yielded(seq.up).val, 1)
            n    == Len(FlatMapEvents)
        IN  /\ last.out = MapThenFlatten.out
            /\ last.val = MapThenFlatten.val
            /\ Items = ItemsOf(MapThenFlatten.w)
            /\ IsPrefix(FlatMapEvents, full)
            /\ n = Len(full) \/ (n > 0 /\ FlatMapEvents[n][1] = "item")
            /\ (last.op = "toArray" /\ last.out = "ok") => n = Len(full)

\* toArray over flatMap(v => v, v) of 1, 2 returned 1, 1, 2, 2
C23_Witness ==
    /\ FlatMapRan
    /\ last.op = "toArray"
    /\ seq.f = "twice"
    /\ last.val = <<1, 1, 2, 2>>

\* first() over flatMap(v => v, v) of 1, 2 called f once
C23_WitnessFirst ==
    /\ FlatMapRan
    /\ last.op = "first"
    /\ seq.f = "twice"
    /\ Len(Yielded(seq.up).val) = 2
    /\ CallsOf("flatMap", seq.lvl) = 1
    /\ last.val = 1

\* both operations are traversals and have tried to start
BothAttempted ==
    Racing /\ \A k \in 1..2 : /\ Traverses(async.ops[k].name)
                               /\ async.ops[k].pc \notin {"call", "tick"}

\* both operations are over and settled
BothSettled ==
    Racing /\ \A k \in 1..2 : async.ops[k].pc = "over" /\ async.ops[k].settled # "pending"

\* C24: of two terminal operations on one fresh asynchronous
\* single-traversal sequence, in every interleaving, one traverses and the
\* other is rejected with IllegalStateError and is handed no value; the
\* flag is written once.
C24_ExactlyOneTraverses ==
    Racing =>
        /\ async.writes <= 1
        /\ BothAttempted =>
              \E k \in 1..2 :
                  /\ async.ops[k].trav
                  /\ ~async.ops[3 - k].trav
                  /\ async.ops[3 - k].got = 0
                  /\ async.ops[3 - k].settled # "resolved"
                  /\ BothSettled => async.ops[3 - k].settled = "rejected"

\* C25: once a terminal operation that starts a traversal has run on a
\* pipeline derived from a single-traversal sequence, a terminal operation
\* on the sequence itself, on the same pipeline or on another pipeline
\* derived from the sequence raises IllegalStateError and is handed no
\* value.
C25_DerivedShareGuard ==
    (last.kind = "terminal" /\ last.tried /\ GuardOf(seq) # 0 /\ Attempts(last)) =>
        /\ last.guarded
        /\ last.out = IllegalStateError
        /\ Items = <<>>

\* after a terminal operation on one pipeline derived from a
\* single-traversal sequence, a terminal operation on a map derived from
\* the same sequence raised IllegalStateError
C25_Witness ==
    /\ last.kind = "terminal"
    /\ last.forked
    /\ last.guarded
    /\ seq.kind = "map"
    /\ seq.up.kind = "constrained"
    /\ last.out = IllegalStateError

\* likewise a terminal operation on the single-traversal sequence itself
C25_WitnessSelf ==
    /\ last.kind = "terminal"
    /\ last.forked
    /\ seq.kind = "constrained"
    /\ last.out = IllegalStateError

\* is every source the pipeline reads re-iterable?
RECURSIVE Reiterable(_)
Reiterable(node) ==
    CASE node.kind \in {"base", "generate"} -> TRUE
      [] node.kind \in {"none", "constrained"} -> FALSE
      [] node.kind = "concat" -> Reiterable(node.up) /\ Reiterable(node.other)
      [] OTHER -> Reiterable(node.up)

\* every pull has the fuel of its own
Refuel(w) == [w EXCEPT !.fuel = MaxFuel]

\* two cursors of node pulled alternately, twice each: the four outcomes
Alternately(node, w) ==
    LET Fourth(a1, b1, a2, b2) == <<a1, b1, a2, b2>>
        Third(a1, b1, a2) == Fourth(a1, b1, a2, Next(b1.it, Refuel(a2.w)))
        Second(a1, b1) == Third(a1, b1, Next(a1.it, Refuel(b1.w)))
        First_(a1) == Second(a1, Next(GenIt(node), Refuel(a1.w)))
    IN  First_(Next(GenIt(node), w))

\* one cursor of node pulled twice
Twice(node, w) ==
    LET Second(a1, a2) == <<a1, a2>>
        First_(a1) == Second(a1, Next(a1.it, Refuel(a1.w)))
    IN  First_(Next(GenIt(node), w))

Outcome(r) == <<r.t, r.v, r.e>>

\* two cursors pulled alternately each yield what a single cursor yields
CursorsIndependent ==
    LET two == Alternately(seq, World(heap, <<>>))
        one == Twice(seq, World(heap, <<>>))
    IN  /\ Outcome(two[1]) = Outcome(one[1])
        /\ Outcome(two[2]) = Outcome(one[1])
        /\ Outcome(two[3]) = Outcome(one[2])
        /\ Outcome(two[4]) = Outcome(one[2])

\* a terminal operation ran on a pipeline over re-iterable sources after
\* an earlier one that had traversed it
RanAgain ==
    /\ last.kind = "terminal" /\ last.tried /\ ~last.forked /\ Reiterable(seq)

\* the same operation as the first one on the pipeline
AsFirst == Run(Op(last.op, last.arg), seq, World(<<>>, <<>>))

SizeIsCached == last.kind = "size" => last.val = seq.size

\* a call of size() leaves the node, the flags and iterators of the
\* single-traversal sequences and the recorded events as they are
SizeReadsOnly ==
    (last'.kind = "size" /\ last.kind # "size") =>
        /\ seq' = seq
        /\ heap' = heap
        /\ trace' = trace

\* C27: size() returns the size cached when the node was constructed,
\* before and after any terminal operation, also on a consumed
\* single-traversal sequence, and a call of size() starts no traversal
\* and changes no flag.
C27_SizeIsStable == []SizeIsCached /\ [][SizeReadsOnly]_vars

\* size() on a consumed constrainOnce() of a sequence of known size
C27_Witness ==
    /\ last.kind = "size"
    /\ seq.kind = "constrained"
    /\ heap[seq.id].iterated
    /\ last.val > 0
    /\ last.val = seq.size

\* Sequence.toString() on a fresh Sequence.from(iterator) of n values, and
\* first() after it
SyncToStringConsumes(n) ==
    LET Then(b, r) ==
          /\ r.out = "ok"
          /\ r.w.heap[b.node.id].iterated
          /\ Run(Op("first", 0), b.node, World(r.w.heap, <<>>)).out = IllegalStateError
        Made(b) == Then(b, Run(Op("toString", 0), b.node, b.w))
    IN  Made(From(IteratorSource(Prefix(n)), World(<<>>, <<>>)))

\* C28: Sequence.toString() on a fresh single-traversal sequence returns
\* a string, leaves the sequence consumed, and the next terminal
\* operation raises IllegalStateError; AsyncSequence.toString() returns a
\* string without a traversal and without setting the flag, and a
\* terminal operation started before or after it traverses the sequence.
C28_ToStringConsumesSyncOnly ==
    Racing =>
        \A k \in 1..2 :
            (async.ops[k].name = "toString" /\ async.ops[k].pc = "over") =>
                /\ SyncToStringConsumes(async.n)
                /\ async.ops[k].settled = "resolved"
                /\ ~async.ops[k].trav
                /\ async.ops[3 - k].pc \in {"call", "tick"} =>
                       ~async.iterated /\ async.writes = 0
                /\ (Traverses(async.ops[3 - k].name)
                       /\ async.ops[3 - k].pc \notin {"call", "tick"}) => async.ops[3 - k].trav

\* toString() and first() on one asynchronous single-traversal sequence
\* of two values: first() was handed a value and resolved
C28_Witness ==
    /\ Racing
    /\ async.n = 2
    /\ async.ops[1].name = "toString"
    /\ async.ops[1].pc = "over"
    /\ async.ops[2].name = "first"
    /\ async.ops[2].settled = "resolved"
    /\ async.ops[2].got = 1

\* does a first traversal of node yield at least n values?
YieldsAtLeast(node, n) ==
    LET Reached(r) == r.out = "ok" /\ Len(ItemsOf(r.w)) = n
    IN  n = 0 \/ Reached(Run(Op("elementAt", n - 1), node, World(FreshHeap(heap), <<>>)))

\* a terminal operation that runs its traversal to the end ran first on
\* take(n) over an upstream that yields n values
TakeRanToEnd ==
    /\ last.kind = "terminal" /\ last.fresh
    /\ last.op \in {"toArray", "count", "fold", "forEach"}
    /\ seq.kind = "take" /\ seq.n >= 0
    /\ YieldsAtLeast(seq.up, seq.n)

\* C29: a traversal of take(n) that is run to its end over an upstream
\* that yields n values terminates, also when the upstream never yields
\* a value after the n-th and never ends.
C29_TakeTerminates == TakeRanToEnd => last.out # "hang"

IsAbsent(v) == v = JsNull \/ v = JsUndefined

\* seed, step(seed), ... up to the first absent value, at most k values
RECURSIVE IteratedToAbsent(_, _, _)
IteratedToAbsent(g, v, k) ==
    IF IsAbsent(v) \/ k = 0 THEN <<>>
    ELSE <<v>> \o IteratedToAbsent(g, NextValue(g, v), k - 1)

\* C30: a traversal of generate(seed, step) calls step with yielded
\* values only, never with null or undefined, yields no absent value, and
\* a traversal run to the end over a step that returns an absent value
\* within the bound ends with the values before it.
C30_GenerateStopsAtAbsent ==
    GenerateRan =>
        LET expected == IteratedToAbsent(seq.f, seq.initial, MaxFuel + 2)
        IN  /\ \A i \in 1..Len(StepArgs) : ~IsAbsent(StepArgs[i])
            /\ \A i \in 1..Len(Items) : ~IsAbsent(Items[i])
            /\ IsPrefix(StepArgs, Items)
            /\ (last.op = "toArray" /\ Len(expected) <= MaxFuel) =>
                   last.out = "ok" /\ last.val = expected

====
